---- MODULE Spec2Model ----
(***************************************************************************)
(* The two example hooks of mcphost, examples/hooks/bash-validator.py and  *)
(* examples/hooks/mcp-monitor.py, as one state machine.  The host starts   *)
(* one hook process per tool invocation; a process reads one request on    *)
(* its standard input and ends with an exit status, what it printed on     *)
(* standard output and the error stream, and (mcp-monitor) a line appended *)
(* to the shared usage log.                                                *)
(*                                                                         *)
(* Text is a sequence of one-character strings, so that the regular        *)
(* expressions of the hooks are computed on the characters.  JSON text is  *)
(* a sequence of lexemes: punctuation, quotes, bare names and the          *)
(* characters of string bodies.                                            *)
(***************************************************************************)
EXTENDS Integers, Sequences, FiniteSets, TLC

VARIABLES procs, logfile, logDirExists, spawned, rate

vars == <<procs, logfile, logDirExists, spawned, rate>>

(***************************************************************************)
(* Bounds of the model.                                                    *)
(***************************************************************************)
\* hook processes the host runs at the same time
NumProcs == 2
\* the clock reads 0 to MaxTime seconds
MaxTime == 1

Procs == 1..NumProcs

(***************************************************************************)
(* Characters and the regular-expression primitives of Python's re.        *)
(***************************************************************************)

UpperCase == <<"A", "B", "C", "D", "E", "F", "G", "H", "I", "J", "K", "L", "M", "N", "O", "P", "Q", "R", "S", "T", "U", "V", "W", "X", "Y", "Z">>
LowerCase == <<"a", "b", "c", "d", "e", "f", "g", "h", "i", "j", "k", "l", "m", "n", "o", "p", "q", "r", "s", "t", "u", "v", "w", "x", "y", "z">>
Digits == <<"0", "1", "2", "3", "4", "5", "6", "7", "8", "9">>

Range(s) == {s[i] : i \in 1..Len(s)}

\* \w : letters, digits and the underscore
WordChars == Range(UpperCase) \cup Range(LowerCase) \cup Range(Digits) \cup {"_"}

\* \s
Whitespace == {" ", "\t", "\n", "\r", "\f"}

\* str.lower of one character, which is how re.IGNORECASE compares ASCII
Lower(c) ==
    IF c \in Range(UpperCase)
    THEN LowerCase[CHOOSE i \in 1..Len(UpperCase) : UpperCase[i] = c]
    ELSE c

Fold(c, ignorecase) == IF ignorecase THEN Lower(c) ELSE c

\* the literal lit matches s at position i
LitAt(s, i, lit, ignorecase) ==
    /\ i >= 1
    /\ i + Len(lit) - 1 <= Len(s)
    /\ \A k \in 1..Len(lit) : Fold(s[i + k - 1], ignorecase) = Fold(lit[k], ignorecase)

\* \b between positions i-1 and i
WordBoundary(s, i) ==
    LET before == i > 1 /\ i - 1 <= Len(s) /\ s[i - 1] \in WordChars
        after  == i >= 1 /\ i <= Len(s) /\ s[i] \in WordChars
    IN  before # after

\* positions a..b of s are all \s (vacuous when b < a)
SpaceRun(s, a, b) == \A x \in a..b : s[x] \in Whitespace

\* positions a..b of s are matched by .* : anything but a newline
DotRun(s, a, b) == \A x \in a..b : s[x] # "\n"

(***************************************************************************)
(* bash-validator.py: the rule tables.                                     *)
(***************************************************************************)

Pat_rm == <<"r", "m">>
Pat_rf == <<"-", "r", "f">>
Pat_dd == <<"d", "d">>
Pat_of_dev == <<"o", "f", "=", "/", "d", "e", "v", "/">>
Pat_dev_null == <<"/", "d", "e", "v", "/", "n", "u", "l", "l">>
Pat_2and1 == <<"2", ">", "&", "1">>
Pat_grep == <<"g", "r", "e", "p">>
Pat_find == <<"f", "i", "n", "d">>
Pat_name == <<"-", "n", "a", "m", "e">>

\* re.search(r'\brm\s+-rf\s+/', command, flags)
SearchRmRf(command, ignorecase) ==
    \E i \in 1..Len(command) :
        /\ WordBoundary(command, i)
        /\ LitAt(command, i, Pat_rm, ignorecase)
        /\ \E j \in (i + 3)..Len(command) :
            /\ SpaceRun(command, i + 2, j - 1)
            /\ LitAt(command, j, Pat_rf, ignorecase)
            /\ \E k \in (j + 4)..Len(command) :
                /\ SpaceRun(command, j + 3, k - 1)
                /\ command[k] = "/"

\* re.search(r'\bdd\s+.*\bof=/dev/[sh]d[a-z]', command, flags)
SearchDdDisk(command, ignorecase) ==
    \E i \in 1..Len(command) :
        /\ WordBoundary(command, i)
        /\ LitAt(command, i, Pat_dd, ignorecase)
        /\ \E j \in (i + 3)..Len(command) :
            /\ SpaceRun(command, i + 2, j - 1)
            /\ \E m \in j..Len(command) :
                /\ DotRun(command, j, m - 1)
                /\ WordBoundary(command, m)
                /\ LitAt(command, m, Pat_of_dev, ignorecase)
                /\ m + 10 <= Len(command)
                /\ Fold(command[m + 8], ignorecase) \in {"s", "h"}
                /\ Fold(command[m + 9], ignorecase) = "d"
                /\ Fold(command[m + 10], ignorecase) \in Range(LowerCase)

\* re.search(r'>\s*/dev/null\s+2>&1', command, flags)
SearchDevNull(command, ignorecase) ==
    \E i \in 1..Len(command) :
        /\ command[i] = ">"
        /\ \E j \in (i + 1)..Len(command) :
            /\ SpaceRun(command, i + 1, j - 1)
            /\ LitAt(command, j, Pat_dev_null, ignorecase)
            /\ \E k \in (j + 10)..Len(command) :
                /\ SpaceRun(command, j + 9, k - 1)
                /\ LitAt(command, k, Pat_2and1, ignorecase)

\* re.search(r'\bgrep\b', command, flags)
SearchGrep(command, ignorecase) ==
    \E i \in 1..Len(command) :
        /\ WordBoundary(command, i)
        /\ LitAt(command, i, Pat_grep, ignorecase)
        /\ WordBoundary(command, i + 4)

\* re.search(r'\bfind\s+.*-name', command, flags)
SearchFindName(command, ignorecase) ==
    \E i \in 1..Len(command) :
        /\ WordBoundary(command, i)
        /\ LitAt(command, i, Pat_find, ignorecase)
        /\ \E j \in (i + 5)..Len(command) :
            /\ SpaceRun(command, i + 4, j - 1)
            /\ \E m \in j..Len(command) :
                /\ DotRun(command, j, m - 1)
                /\ LitAt(command, m, Pat_name, ignorecase)

\* the messages of DANGEROUS_PATTERNS, in list order
DANGEROUS_PATTERNS ==
    << "Dangerous command: rm -rf /",
       "Direct disk write detected",
       "Consider using proper error handling instead of discarding stderr" >>

\* the n-th pattern of DANGEROUS_PATTERNS, searched in command
DangerousSearch(n, command, ignorecase) ==
    CASE n = 1 -> SearchRmRf(command, ignorecase)
      [] n = 2 -> SearchDdDisk(command, ignorecase)
      [] n = 3 -> SearchDevNull(command, ignorecase)

\* the messages of SUGGEST_ALTERNATIVES, in insertion order
SUGGEST_ALTERNATIVES ==
    << "Use 'rg' (ripgrep) for better performance",
       "Use 'fd' for faster file finding" >>

\* the n-th pattern of SUGGEST_ALTERNATIVES, searched in command
SuggestSearch(n, command, ignorecase) ==
    CASE n = 1 -> SearchGrep(command, ignorecase)
      [] n = 2 -> SearchFindName(command, ignorecase)

(***************************************************************************)
(* JSON values and the JSON text the hooks decode and encode.              *)
(***************************************************************************)
\* dict.get of a key the object does not have
Absent == [t |-> "absent", v |-> <<>>]
JStr(chars) == [t |-> "str", v |-> chars]
JNum == [t |-> "num", v |-> <<"4", "2">>]
JObj == [t |-> "obj", v |-> <<>>]

\* the escapes of json.dumps and json.loads, as pairs: raw lexeme, escaped lexeme
EscapeTable ==
    << <<"\"", "\\\"">>, <<"\n", "\\n">>, <<"\t", "\\t">>,
       <<"\\\"", "\\\\\\\"">>, <<"\\n", "\\\\n">>, <<"\\t", "\\\\t">> >>

Escape(c) ==
    IF \E i \in 1..Len(EscapeTable) : EscapeTable[i][1] = c
    THEN EscapeTable[CHOOSE i \in 1..Len(EscapeTable) : EscapeTable[i][1] = c][2]
    ELSE c

Unescape(c) ==
    IF \E i \in 1..Len(EscapeTable) : EscapeTable[i][2] = c
    THEN EscapeTable[CHOOSE i \in 1..Len(EscapeTable) : EscapeTable[i][2] = c][1]
    ELSE c

EscapeAll(s) == [i \in 1..Len(s) |-> Escape(s[i])]
UnescapeAll(s) == [i \in 1..Len(s) |-> Unescape(s[i])]

\* a lexeme that cannot stand unescaped inside a JSON string
RawControl == {"\"", "\n", "\t", "\r", "\f"}

\* the default text '{}' of input_data.get('tool_input', '{}')
EmptyObjText == <<"{", "}">>
ArrayText == <<"[", "]">>
BadText == <<"{", "o", "o", "p", "s">>
CommandKey == <<"{", "\"", "command", "\"", ":">>
\* '{"command": "<command>"}'
CommandText(command) == CommandKey \o <<"\"">> \o EscapeAll(command) \o <<"\"", "}">>
\* '{"command": 42}'
NumCommandText == CommandKey \o JNum.v \o <<"}">>

\* json.loads(text) of line 31: the decoded object's 'command' entry, or the failure
JsonLoads(text) ==
    LET n == Len(text) IN
    IF text = EmptyObjText THEN [ok |-> TRUE, t |-> "obj", command |-> Absent]
    ELSE IF text = ArrayText THEN [ok |-> TRUE, t |-> "array", command |-> Absent]
    ELSE IF text = NumCommandText THEN [ok |-> TRUE, t |-> "obj", command |-> JNum]
    ELSE IF /\ n >= 8
            /\ SubSeq(text, 1, 6) = CommandKey \o <<"\"">>
            /\ SubSeq(text, n - 1, n) = <<"\"", "}">>
            /\ \A i \in 7..(n - 2) : text[i] \notin RawControl
         THEN [ok |-> TRUE, t |-> "obj",
               command |-> JStr(UnescapeAll(SubSeq(text, 7, n - 2)))]
    ELSE [ok |-> FALSE, t |-> "error", command |-> Absent]

\* What the host writes on the hook's standard input.  syntax is "bad" for text
\* that is no JSON, "array" for JSON that is no object, "object" for an object
\* with the entries tool_name and tool_input (Absent when the key is missing).
Request(syntax, tool_name, tool_input) ==
    [syntax |-> syntax, tool_name |-> tool_name, tool_input |-> tool_input]

\* json.load(sys.stdin)
JsonLoad(stdin) ==
    CASE stdin.syntax = "bad" ->
            [ok |-> FALSE, t |-> "error", tool_name |-> Absent, tool_input |-> Absent]
      [] stdin.syntax = "array" ->
            [ok |-> TRUE, t |-> "array", tool_name |-> Absent, tool_input |-> Absent]
      [] stdin.syntax = "object" ->
            [ok |-> TRUE, t |-> "obj", tool_name |-> stdin.tool_name,
             tool_input |-> stdin.tool_input]

(***************************************************************************)
(* How a hook process ends.                                                *)
(***************************************************************************)
EXIT_APPROVE == 0
EXIT_ERROR == 1
EXIT_BLOCK == 2

Outcome(stdout, stderr, exit) == [stdout |-> stdout, stderr |-> stderr, exit |-> exit]

\* the handler of line 52 without its sys.exit(1): the error is reported and the
\* process ends like one that returned from main
HookErrorNoExit(e) == Outcome(<<>>, << <<"Hook error: ", e>> >>, EXIT_APPROVE)

\* except Exception as e: print(f"Hook error: {e}", file=sys.stderr); sys.exit(1)
HookError(e) == Outcome(<<>>, << <<"Hook error: ", e>> >>, EXIT_ERROR)

\* sys.exit(0) with nothing printed, and main() returning with nothing printed
Silent == Outcome(<<>>, <<>>, EXIT_APPROVE)

\* print(json.dumps({"decision": decision, "reason": reason})), then status 0
Decision(decision, reason) ==
    Outcome(<< [decision |-> decision, reason |-> reason] >>, <<>>, EXIT_APPROVE)

RECURSIVE Join(_, _)
\* sep.join(parts)
Join(parts, sep) ==
    IF Len(parts) = 0 THEN <<>>
    ELSE IF Len(parts) = 1 THEN parts
    ELSE <<Head(parts), sep>> \o Join(Tail(parts), sep)

(***************************************************************************)
(* bash-validator.py: main.                                                *)
(***************************************************************************)

Tool_bash == <<"b", "a", "s", "h">>

\* the test of line 28 with 'bash' as the default of a missing tool_name
IsBashToolOrMissing(input_data) == input_data.tool_name \in {Absent, JStr(Tool_bash)}

\* input_data.get('tool_name') != 'bash' is false
IsBashTool(input_data) == input_data.tool_name = JStr(Tool_bash)

\* the first pattern of DANGEROUS_PATTERNS found in command, 0 when none is
FirstDangerous(command) ==
    LET hits == {n \in 1..Len(DANGEROUS_PATTERNS) : DangerousSearch(n, command, TRUE)}
    IN  IF hits = {} THEN 0 ELSE CHOOSE n \in hits : \A m \in hits : n <= m

RECURSIVE SuggestionsUpTo(_, _)
\* suggestions after the loop has run over the first n entries
SuggestionsUpTo(n, command) ==
    IF n = 0 THEN <<>>
    ELSE LET before == SuggestionsUpTo(n - 1, command)
         IN  IF SuggestSearch(n, command, FALSE)
             THEN Append(before, SUGGEST_ALTERNATIVES[n])
             ELSE before

\* the loop of lines 41-43 with a break after the first suggestion
SuggestionsFirstOnly(command) ==
    LET hits == {n \in 1..Len(SUGGEST_ALTERNATIVES) : SuggestSearch(n, command, FALSE)}
    IN  IF hits = {} THEN <<>>
        ELSE <<SUGGEST_ALTERNATIVES[CHOOSE n \in hits : \A m \in hits : n <= m]>>

\* the list suggestions of lines 40-43
Suggestions(command) == SuggestionsUpTo(Len(SUGGEST_ALTERNATIVES), command)

\* lines 33-50 without the sys.exit(2) of line 37: the message of the first
\* dangerous pattern is reported and the suggestions are made all the same
ValidateCommandNoExit(command) ==
    LET n == FirstDangerous(command)
        suggestions == Suggestions(command)
        stderr == IF n > 0 THEN << <<DANGEROUS_PATTERNS[n]>> >> ELSE <<>>
    IN  IF suggestions # <<>>
        THEN Outcome(<< [decision |-> "approve",
                         reason |-> <<"Command approved. Suggestions: ">>
                                        \o Join(suggestions, "; ")] >>,
                     stderr, EXIT_APPROVE)
        ELSE Outcome(<<>>, stderr, EXIT_APPROVE)

\* lines 33-50, for a command that is a string
ValidateCommand(command) ==
    LET n == FirstDangerous(command)
        suggestions == Suggestions(command)
    IN  IF n > 0 THEN Outcome(<<>>, << <<DANGEROUS_PATTERNS[n]>> >>, EXIT_BLOCK)
        ELSE IF suggestions # <<>>
        THEN Decision("approve",
                      <<"Command approved. Suggestions: ">> \o Join(suggestions, "; "))
        ELSE Silent

\* main() of bash-validator.py on the request stdin
BashValidatorMain(stdin) ==
    LET input_data == JsonLoad(stdin) IN
    IF ~input_data.ok THEN HookError("JSONDecodeError")
    ELSE IF input_data.t # "obj" THEN HookError("AttributeError")
    ELSE IF ~IsBashTool(input_data) THEN Silent
    ELSE
      LET raw == IF input_data.tool_input = Absent
                 THEN JStr(EmptyObjText) ELSE input_data.tool_input
      IN
      IF raw.t # "str" THEN HookError("TypeError")
      ELSE
        LET parsed == JsonLoads(raw.v) IN
        IF ~parsed.ok THEN HookError("JSONDecodeError")
        ELSE IF parsed.t # "obj" THEN HookError("AttributeError")
        ELSE
          LET command == IF parsed.command = Absent THEN JStr(<<>>) ELSE parsed.command
          IN  IF command.t # "str" THEN HookError("TypeError")
              ELSE ValidateCommand(command.v)

(***************************************************************************)
(* mcp-monitor.py: the policy tables.                                      *)
(***************************************************************************)

Pat_github_delete == <<"m", "c", "p", "_", "_", "g", "i", "t", "h", "u", "b", "_", "_", "d", "e", "l", "e", "t", "e", "_">>
Pat_aws == <<"m", "c", "p", "_", "_", "a", "w", "s", "_", "_">>
Pat_production == <<"_", "p", "r", "o", "d", "u", "c", "t", "i", "o", "n">>
Pat_openai == <<"m", "c", "p", "_", "_", "o", "p", "e", "n", "a", "i", "_", "_">>

\* re.match("mcp__github__delete_.*", tool_name)
MatchGithubDelete(tool_name) == LitAt(tool_name, 1, Pat_github_delete, FALSE)

\* re.match("mcp__aws__.*_production", tool_name)
MatchAwsProduction(tool_name) ==
    /\ LitAt(tool_name, 1, Pat_aws, FALSE)
    /\ \E m \in (Len(Pat_aws) + 1)..Len(tool_name) :
        /\ DotRun(tool_name, Len(Pat_aws) + 1, m - 1)
        /\ LitAt(tool_name, m, Pat_production, FALSE)

\* re.match("mcp__openai__.*", tool_name)
MatchOpenai(tool_name) == LitAt(tool_name, 1, Pat_openai, FALSE)

\* the number of patterns of BLOCKED_MCP_TOOLS
BLOCKED_MCP_TOOLS == 2

\* the n-th pattern of BLOCKED_MCP_TOOLS, matched at the start of tool_name
BlockedMatch(n, tool_name) ==
    CASE n = 1 -> MatchGithubDelete(tool_name)
      [] n = 2 -> MatchAwsProduction(tool_name)

\* RATE_LIMITS = {"mcp__openai__.*": (10, 60)}
RATE_LIMIT_CALLS == 10
RATE_LIMIT_WINDOW == 60
RATE_LIMITS == <<RATE_LIMIT_CALLS, RATE_LIMIT_WINDOW>>

\* def check_rate_limit(tool_name, limits): return True
check_rate_limit(tool_name, limits) == TRUE

BlockedReason(tool_name) == <<"Tool ">> \o tool_name \o <<" is blocked by security policy">>

RateLimitReason(limits) ==
    <<"Rate limit exceeded: ", ToString(limits[1]), " calls per ", ToString(limits[2]), "s">>

(***************************************************************************)
(* mcp-monitor.py: the usage log, a file of JSON lines.                    *)
(***************************************************************************)
LogEntry(timestamp, tool, input) == [timestamp |-> timestamp, tool |-> tool, input |-> input]

NoEntry == LogEntry(0, <<>>, Absent)

\* json.dumps of a decoded JSON value
JsonDumps(value) ==
    CASE value.t = "str" -> <<"\"">> \o EscapeAll(value.v) \o <<"\"">>
      [] value.t = "num" -> value.v
      [] value.t = "obj" -> EmptyObjText

TimestampKey == <<"{", "\"", "timestamp", "\"", ":", "\"">>
ToolKey == <<"\"", ",", "\"", "tool", "\"", ":", "\"">>
InputKey == <<"\"", ",", "\"", "input", "\"", ":">>

\* datetime.isoformat of the clock value t
IsoFormat(t) == ToString(t)

\* json.dumps(log_entry) + "\n"
LogLine(entry) ==
    TimestampKey \o <<IsoFormat(entry.timestamp)>> \o ToolKey \o EscapeAll(entry.tool)
        \o InputKey \o JsonDumps(entry.input) \o <<"}", "\n">>

\* f.write on a file opened without O_APPEND: the data goes where the handle
\* stands, the offset pos it was opened at, over what is there
FileWriteAtPos(file, pos, data) ==
    SubSeq(file, 1, pos) \o data \o SubSeq(file, pos + Len(data) + 1, Len(file))

\* f.write on a file opened with mode "a": the operating system appends the
\* data at the end of the file, whatever the offset pos the handle was opened at
FileWrite(file, pos, data) == file \o data

RECURSIVE SplitLines(_)
\* the lines of a file: each run of lexemes up to a newline, and what follows the last
SplitLines(file) ==
    IF file = <<>> THEN <<>>
    ELSE IF \E i \in 1..Len(file) : file[i] = "\n"
    THEN LET i == CHOOSE k \in 1..Len(file) :
                      file[k] = "\n" /\ \A j \in 1..(k - 1) : file[j] # "\n"
         IN  <<SubSeq(file, 1, i - 1)>> \o SplitLines(SubSeq(file, i + 1, Len(file)))
    ELSE <<file>>

\* a JSON value read back from its lexemes
DecodeValue(text) ==
    LET n == Len(text) IN
    IF text = EmptyObjText THEN [ok |-> TRUE, value |-> JObj]
    ELSE IF text = JNum.v THEN [ok |-> TRUE, value |-> JNum]
    ELSE IF /\ n >= 2
            /\ text[1] = "\""
            /\ text[n] = "\""
            /\ \A i \in 2..(n - 1) : text[i] \notin RawControl
         THEN [ok |-> TRUE, value |-> JStr(UnescapeAll(SubSeq(text, 2, n - 1)))]
    ELSE [ok |-> FALSE, value |-> Absent]

\* json.loads of one line of the usage log, as a reader of the log does it
DecodeLine(line) ==
    LET n == Len(line)
        bad == [ok |-> FALSE, entry |-> NoEntry]
        t0 == Len(TimestampKey) + 1          \* where the timestamp stands
        n0 == t0 + Len(ToolKey) + 1          \* where the tool name starts
    IN
    IF ~(/\ n > n0
         /\ SubSeq(line, 1, t0 - 1) = TimestampKey
         /\ SubSeq(line, t0 + 1, n0 - 1) = ToolKey
         /\ line[n] = "}"
         /\ \E q \in n0..n : line[q] = "\"")
    THEN bad
    ELSE
      LET q == CHOOSE k \in n0..n : line[k] = "\"" /\ \A j \in n0..(k - 1) : line[j] # "\""
          value == DecodeValue(SubSeq(line, q + Len(InputKey), n - 1))
          stamps == {t \in 0..MaxTime : IsoFormat(t) = line[t0]}
      IN
      IF /\ q + Len(InputKey) <= n
         /\ SubSeq(line, q, q + Len(InputKey) - 1) = InputKey
         /\ \A j \in n0..(q - 1) : line[j] \notin RawControl
         /\ value.ok
         /\ stamps # {}
      THEN [ok |-> TRUE,
            entry |-> LogEntry(CHOOSE t \in stamps : TRUE,
                               UnescapeAll(SubSeq(line, n0, q - 1)), value.value)]
      ELSE bad

(***************************************************************************)
(* mcp-monitor.py: main, up to the log entry (lines 28-57).                *)
(***************************************************************************)
\* the first pattern of BLOCKED_MCP_TOOLS that matches tool_name, 0 when none does
FirstBlocked(tool_name) ==
    LET hits == {n \in 1..BLOCKED_MCP_TOOLS : BlockedMatch(n, tool_name)}
    IN  IF hits = {} THEN 0 ELSE CHOOSE n \in hits : \A m \in hits : n <= m

\* What lines 28-57 come to on the request stdin at time t.  done: the process has
\* ended with outcome.  rated: the loop over RATE_LIMITS called check_rate_limit.
\* Otherwise the process goes on to write entry to the usage log.
MonitorCheck(stdin, t) ==
    LET input_data == JsonLoad(stdin)
        ended(outcome, rated) ==
            [done |-> TRUE, outcome |-> outcome, rated |-> rated, entry |-> NoEntry]
    IN
    IF ~input_data.ok THEN ended(HookError("JSONDecodeError"), FALSE)
    ELSE IF input_data.t # "obj" THEN ended(HookError("AttributeError"), FALSE)
    ELSE
      LET tool_name == IF input_data.tool_name = Absent
                       THEN JStr(<<>>) ELSE input_data.tool_name
          input == IF input_data.tool_input = Absent THEN JObj ELSE input_data.tool_input
      IN
      IF tool_name.t # "str" THEN ended(HookError("TypeError"), FALSE)
      ELSE IF FirstBlocked(tool_name.v) > 0
      THEN ended(Decision("block", BlockedReason(tool_name.v)), FALSE)
      ELSE IF MatchOpenai(tool_name.v) /\ ~check_rate_limit(tool_name.v, RATE_LIMITS)
      THEN ended(Decision("block", RateLimitReason(RATE_LIMITS)), TRUE)
      ELSE [done |-> FALSE, outcome |-> Silent, rated |-> MatchOpenai(tool_name.v),
            entry |-> LogEntry(t, tool_name.v, input)]

(***************************************************************************)
(* The hook processes.                                                     *)
(***************************************************************************)
NoRequest == Request("none", Absent, Absent)

\* pc: "idle" (not started), "main" (started, standard input not yet read),
\* "makedirs", "open", "write" (mcp-monitor, before lines 62, 64, 65), "exited".
\* pos: the offset of the log file handle when it was opened.
\* seq: which call to check_rate_limit, counted from 1, this process made (0: none).
\* audit: "none", "written" (line 65 appended the entry) or "failed".
IdleProc ==
    [hook |-> "none", pc |-> "idle", stdin |-> NoRequest, stdout |-> <<>>,
     stderr |-> <<>>, exit |-> -1, entry |-> NoEntry, pos |-> 0, seq |-> 0,
     audit |-> "none"]

Started(hook, stdin) == [IdleProc EXCEPT !.hook = hook, !.pc = "main", !.stdin = stdin]

Exited(proc, outcome) ==
    [proc EXCEPT !.pc = "exited", !.stdout = outcome.stdout, !.stderr = outcome.stderr,
                 !.exit = outcome.exit]

(***************************************************************************)
(* The requests the host sends.                                            *)
(***************************************************************************)

Cmd_rm_rf_root == <<"r", "m", " ", "-", "r", "f", " ", "/">>
Cmd_RM_RF_tmp == <<"R", "M", " ", " ", "-", "R", "F", "\t", "/", "t", "m", "p">>
Cmd_farm_rf == <<"f", "a", "r", "m", " ", "-", "r", "f", " ", "/">>
Cmd_rm_rf_rel == <<"r", "m", " ", "-", "r", "f", " ", ".", "/", "x">>
Cmd_dd_disk == <<"d", "d", " ", "i", "f", "=", "a", " ", "o", "f", "=", "/", "d", "e", "v", "/", "s", "d", "a">>
Cmd_dd_newline == <<"d", "d", " ", "i", "f", "=", "a", "\n", "o", "f", "=", "/", "d", "e", "v", "/", "s", "d", "a">>
Cmd_devnull == <<"l", "s", " ", ">", "/", "d", "e", "v", "/", "n", "u", "l", "l", " ", "2", ">", "&", "1">>
Cmd_grep == <<"g", "r", "e", "p", " ", "f", "o", "o">>
Cmd_GREP == <<"G", "R", "E", "P", " ", "f", "o", "o">>
Cmd_egrep == <<"e", "g", "r", "e", "p", " ", "f", "o", "o">>
Cmd_find_name == <<"f", "i", "n", "d", " ", ".", " ", "-", "n", "a", "m", "e", " ", "x">>
Cmd_find_plain == <<"f", "i", "n", "d", " ", ".">>
Cmd_ls == <<"l", "s">>
CmdSep == <<" ", "&", "&", " ">>
Tool_Bash_upper == <<"B", "a", "s", "h">>
Tool_github_delete == <<"m", "c", "p", "_", "_", "g", "i", "t", "h", "u", "b", "_", "_", "d", "e", "l", "e", "t", "e", "_", "r", "e", "p", "o">>
Tool_aws_production == <<"m", "c", "p", "_", "_", "a", "w", "s", "_", "_", "d", "e", "p", "l", "o", "y", "_", "p", "r", "o", "d", "u", "c", "t", "i", "o", "n">>
Tool_openai_chat == <<"m", "c", "p", "_", "_", "o", "p", "e", "n", "a", "i", "_", "_", "c", "h", "a", "t">>

Fragments ==
    { Cmd_rm_rf_root, Cmd_RM_RF_tmp, Cmd_farm_rf, Cmd_rm_rf_rel, Cmd_dd_disk,
      Cmd_dd_newline, Cmd_devnull, Cmd_grep, Cmd_GREP, Cmd_egrep, Cmd_find_name,
      Cmd_find_plain, Cmd_ls }

\* the shell commands: nothing, one fragment, or two joined by &&
Commands == {<<>>} \cup Fragments \cup {a \o CmdSep \o b : a, b \in Fragments}

\* every kind of request bash-validator can be sent
BashRequests ==
    {Request("bad", Absent, Absent), Request("array", Absent, Absent)}
    \cup {Request("object", JStr(Tool_bash), JStr(CommandText(c))) : c \in Commands}
    \cup {Request("object", JStr(Tool_bash), i) :
            i \in {Absent, JNum, JObj, JStr(BadText), JStr(ArrayText),
                   JStr(EmptyObjText), JStr(NumCommandText)}}
    \cup {Request("object", n, i) :
            n \in {Absent, JNum, JStr(Tool_Bash_upper), JStr(Tool_github_delete)},
            i \in {Absent, JObj, JStr(BadText), JStr(CommandText(Cmd_rm_rf_root))}}

\* the requests of the runs in which both hooks serve the host
CoreBashRequests ==
    {Request("bad", Absent, Absent), Request("array", Absent, Absent),
     Request("object", JStr(Tool_github_delete), JStr(CommandText(Cmd_rm_rf_root)))}
    \cup {Request("object", JStr(Tool_bash), JStr(CommandText(c))) :
            c \in {Cmd_RM_RF_tmp, Cmd_grep}}

MonitorRequests ==
    {Request("bad", Absent, Absent), Request("array", Absent, Absent),
     Request("object", JNum, Absent),
     Request("object", Absent, Absent)}
    \cup {Request("object", JStr(n), JStr(CommandText(Cmd_ls))) :
            n \in {Tool_github_delete, Tool_aws_production, Tool_openai_chat}}

\* the requests of a burst of calls to one rate-limited tool
BurstRequests == {Request("object", JStr(Tool_openai_chat), Absent)}

\* the calls of one burst: five more than the quota
RateBurst == RATE_LIMIT_CALLS + 5

(***************************************************************************)
(* The state machine.                                                      *)
(***************************************************************************)
Init ==
    /\ procs = [p \in Procs |-> IdleProc]
    /\ logfile = <<>>
    /\ logDirExists = FALSE
    /\ spawned = 0
    /\ rate = [seen |-> 0, allowed |-> 0, rejected |-> 0]

\* the host starts a hook on a free slot and writes the request on its standard input
Spawn(p, hook, stdin) ==
    /\ procs[p].pc = "idle"
    /\ procs' = [procs EXCEPT ![p] = Started(hook, stdin)]
    /\ spawned' = spawned + 1
    /\ UNCHANGED <<logfile, logDirExists, rate>>

\* the host starts the next call of a burst, reusing the slot of a process that ended
SpawnBurst(p, stdin) ==
    /\ procs[p].pc \in {"idle", "exited"}
    /\ spawned < RateBurst
    /\ procs' = [procs EXCEPT ![p] = Started("mcp-monitor", stdin)]
    /\ spawned' = spawned + 1
    /\ UNCHANGED <<logfile, logDirExists, rate>>

\* bash-validator.py runs from start to end
BashMain(p) ==
    /\ procs[p].hook = "bash-validator"
    /\ procs[p].pc = "main"
    /\ procs' = [procs EXCEPT ![p] = Exited(@, BashValidatorMain(@.stdin))]
    /\ UNCHANGED <<logfile, logDirExists, spawned, rate>>

\* mcp-monitor.py, lines 28-57; datetime.now() reads t
MonitorMain(p, t) ==
    /\ procs[p].hook = "mcp-monitor"
    /\ procs[p].pc = "main"
    /\ LET r == MonitorCheck(procs[p].stdin, t)
           blocked == r.done /\ r.rated
           seq == IF r.rated THEN rate.seen + 1 ELSE 0
       IN
       /\ procs' = [procs EXCEPT ![p] =
                     IF r.done THEN Exited([@ EXCEPT !.seq = seq], r.outcome)
                     ELSE [@ EXCEPT !.pc = "makedirs", !.entry = r.entry, !.seq = seq]]
       /\ rate' = IF r.rated
                  THEN [seen |-> rate.seen + 1,
                        allowed |-> rate.allowed + (IF blocked THEN 0 ELSE 1),
                        rejected |-> rate.rejected + (IF blocked THEN 1 ELSE 0)]
                  ELSE rate
    /\ UNCHANGED <<logfile, logDirExists, spawned>>

\* an exception of lines 59-65 reaches the handler of line 67
AuditFailed(proc, e) == Exited([proc EXCEPT !.audit = "failed"], HookError(e))

\* os.makedirs(log_dir, exist_ok=True), line 62
MonitorMakedirs(p) ==
    /\ procs[p].pc = "makedirs"
    /\ \/ /\ procs' = [procs EXCEPT ![p].pc = "open"]
          /\ logDirExists' = TRUE
       \/ /\ ~logDirExists
          /\ procs' = [procs EXCEPT ![p] = AuditFailed(@, "PermissionError")]
          /\ UNCHANGED logDirExists
    /\ UNCHANGED <<logfile, spawned, rate>>

\* open(..., "a"), line 64
MonitorOpen(p) ==
    /\ procs[p].pc = "open"
    /\ \/ procs' = [procs EXCEPT ![p].pc = "write", ![p].pos = Len(logfile)]
       \/ procs' = [procs EXCEPT ![p] = AuditFailed(@, "PermissionError")]
    /\ UNCHANGED <<logfile, logDirExists, spawned, rate>>

\* f.write(json.dumps(log_entry) + "\n") and the close of the with block, line 65
MonitorWrite(p) ==
    /\ procs[p].pc = "write"
    /\ \/ /\ logfile' = FileWrite(logfile, procs[p].pos, LogLine(procs[p].entry))
          /\ procs' = [procs EXCEPT ![p] = Exited([@ EXCEPT !.audit = "written"], Silent)]
       \/ /\ procs' = [procs EXCEPT ![p] = AuditFailed(@, "OSError")]
          /\ UNCHANGED logfile
    /\ UNCHANGED <<logDirExists, spawned, rate>>

\* the readings of the clock
Times == 0..MaxTime

\* the host runs both hooks, each process on a request of its own
Next ==
    \/ \E p \in Procs, stdin \in CoreBashRequests : Spawn(p, "bash-validator", stdin)
    \/ \E p \in Procs, stdin \in MonitorRequests : Spawn(p, "mcp-monitor", stdin)
    \/ \E p \in Procs : BashMain(p)
    \/ \E p \in Procs, t \in Times : MonitorMain(p, t)
    \/ \E p \in Procs : MonitorMakedirs(p)
    \/ \E p \in Procs : MonitorOpen(p)
    \/ \E p \in Procs : MonitorWrite(p)

Spec == Init /\ [][Next]_vars

\* one bash-validator process, on any request
InitBash ==
    /\ \E stdin \in BashRequests :
          procs = [p \in Procs |->
                      IF p = 1 THEN Started("bash-validator", stdin) ELSE IdleProc]
    /\ logfile = <<>>
    /\ logDirExists = FALSE
    /\ spawned = 1
    /\ rate = [seen |-> 0, allowed |-> 0, rejected |-> 0]

NextBash == \E p \in Procs : BashMain(p)

SpecBash == InitBash /\ [][NextBash]_vars

\* a burst of calls to one rate-limited tool, all within one window
NextRate ==
    \/ \E p \in Procs, stdin \in BurstRequests : SpawnBurst(p, stdin)
    \/ \E p \in Procs : MonitorMain(p, 0)
    \/ \E p \in Procs : MonitorMakedirs(p)
    \/ \E p \in Procs : MonitorOpen(p)
    \/ \E p \in Procs : MonitorWrite(p)

SpecRate == Init /\ [][NextRate]_vars

(***************************************************************************)
(* What the properties speak of.                                           *)
(***************************************************************************)
IsExited(p) == procs[p].pc = "exited"
IsBash(p) == procs[p].hook = "bash-validator"
IsMonitor(p) == procs[p].hook = "mcp-monitor"

\* the request is a bash invocation whose tool_input holds a command string
HasCommand(stdin) ==
    /\ stdin.syntax = "object"
    /\ stdin.tool_name = JStr(Tool_bash)
    /\ \/ stdin.tool_input = Absent
       \/ /\ stdin.tool_input.t = "str"
          /\ JsonLoads(stdin.tool_input.v).ok
          /\ JsonLoads(stdin.tool_input.v).t = "obj"
          /\ JsonLoads(stdin.tool_input.v).command.t \in {"absent", "str"}

CommandOf(stdin) ==
    IF stdin.tool_input = Absent THEN <<>> ELSE JsonLoads(stdin.tool_input.v).command.v

\* the request is an object whose tool_name is a string, or is missing
HasToolName(stdin) == stdin.syntax = "object" /\ stdin.tool_name.t \in {"absent", "str"}

ToolNameOf(stdin) == stdin.tool_name.v

PayloadOf(stdin) == IF stdin.tool_input = Absent THEN JObj ELSE stdin.tool_input

WellFormed(p) ==
    \/ IsBash(p) /\ HasCommand(procs[p].stdin)
    \/ IsMonitor(p) /\ HasToolName(procs[p].stdin)

\* a block rule of the hook matches the identifier of the invocation
BlockRuleMatched(p) ==
    \/ /\ IsBash(p)
       /\ HasCommand(procs[p].stdin)
       /\ \E n \in 1..Len(DANGEROUS_PATTERNS) :
             DangerousSearch(n, CommandOf(procs[p].stdin), TRUE)
    \/ /\ IsMonitor(p)
       /\ HasToolName(procs[p].stdin)
       /\ \E n \in 1..BLOCKED_MCP_TOOLS : BlockedMatch(n, ToolNameOf(procs[p].stdin))

\* the suggestion rules that match the command of a bash invocation
SuggestRulesMatched(p) ==
    IF IsBash(p) /\ HasCommand(procs[p].stdin)
    THEN {n \in 1..Len(SUGGEST_ALTERNATIVES) :
            SuggestSearch(n, CommandOf(procs[p].stdin), FALSE)}
    ELSE {}

\* the call came after the quota of its window was used up
QuotaExceeded(p) == IsMonitor(p) /\ procs[p].seq > RATE_LIMIT_CALLS

Printed(p, decision) ==
    \E i \in 1..Len(procs[p].stdout) : procs[p].stdout[i].decision = decision

\* the decisions the host reads off an ended process
Verdicts(p) ==
    {v \in {"Approve", "Block", "Suggest"} :
        \/ v = "Block" /\ (procs[p].exit = EXIT_BLOCK \/ Printed(p, "block"))
        \/ v = "Suggest" /\ procs[p].exit = EXIT_APPROVE /\ Printed(p, "approve")
        \/ v = "Approve" /\ procs[p].exit = EXIT_APPROVE /\ procs[p].stdout = <<>>}

RateLimitDecision == <<[decision |-> "block", reason |-> RateLimitReason(RATE_LIMITS)]>>

LogLines == SplitLines(logfile)

IsPrefix(s, t) == Len(s) <= Len(t) /\ SubSeq(t, 1, Len(s)) = s

(***************************************************************************)
(* The properties.                                                         *)
(***************************************************************************)

\* C1: every well-formed invocation a hook has handled without a hook error has
\* exactly one decision; the decision is Block if and only if a block rule
\* matched the identifier or the call exceeded the quota of a rate limit; it is
\* Suggest only when no Block condition held and a suggestion rule matched.
C1_DecisionMatchesRules ==
    \A p \in Procs :
        (IsExited(p) /\ WellFormed(p) /\ procs[p].exit # EXIT_ERROR) =>
            /\ Cardinality(Verdicts(p)) = 1
            /\ ("Block" \in Verdicts(p)) <=> (BlockRuleMatched(p) \/ QuotaExceeded(p))
            /\ ("Suggest" \in Verdicts(p)) =>
                  /\ ~(BlockRuleMatched(p) \/ QuotaExceeded(p))
                  /\ SuggestRulesMatched(p) # {}

\* C2: of the calls to the rate-limited tool inside one window, the one that is
\* number RATE_LIMIT_CALLS is allowed, and the next one is rejected with a
\* block decision whose reason is the rate limit.
C2_CallAfterQuotaRejected ==
    \A p \in Procs :
        (IsMonitor(p) /\ procs[p].pc \notin {"idle", "main"}) =>
            /\ (procs[p].seq = RATE_LIMIT_CALLS) => ~Printed(p, "block")
            /\ (procs[p].seq = RATE_LIMIT_CALLS + 1) =>
                  /\ IsExited(p)
                  /\ procs[p].stdout = RateLimitDecision

\* C3: of a burst of RATE_LIMIT_CALLS + 5 concurrent calls to a fresh rate-limited
\* key, never more than RATE_LIMIT_CALLS are allowed, and once all have ended
\* exactly RATE_LIMIT_CALLS were allowed and 5 rejected.
C3_BurstWithinQuota ==
    /\ rate.allowed <= RATE_LIMIT_CALLS
    /\ (rate.seen = RateBurst) => (rate.allowed = RATE_LIMIT_CALLS /\ rate.rejected = 5)

\* C4: a failure of the audit write (creating the directory, opening the file,
\* appending the line) is reported on the error stream and the process still
\* ends with the approve status 0.
C4_AuditFailureKeepsApproval ==
    \A p \in Procs :
        (IsMonitor(p) /\ IsExited(p) /\ procs[p].audit = "failed") =>
            /\ procs[p].stderr # <<>>
            /\ procs[p].exit = EXIT_APPROVE

C6_AllSuggestionsReported ==
    \A p \in Procs :
        (/\ IsBash(p) /\ IsExited(p) /\ HasCommand(procs[p].stdin)
         /\ ~BlockRuleMatched(p)
         /\ SuggestRulesMatched(p) # {}) =>
            /\ procs[p].exit = EXIT_APPROVE
            /\ procs[p].stderr = <<>>
            /\ Len(procs[p].stdout) = 1
            /\ procs[p].stdout[1].decision = "approve"
            /\ \A n \in SuggestRulesMatched(p) :
                  SUGGEST_ALTERNATIVES[n] \in Range(procs[p].stdout[1].reason)
            /\ \A n \in 1..Len(DANGEROUS_PATTERNS) :
                  DANGEROUS_PATTERNS[n] \notin Range(procs[p].stdout[1].reason)

\* a command that matches both suggestion rules and no block rule has been decided
C6_Witness ==
    \E p \in Procs :
        /\ IsBash(p) /\ IsExited(p) /\ HasCommand(procs[p].stdin)
        /\ ~BlockRuleMatched(p)
        /\ Cardinality(SuggestRulesMatched(p)) = 2

\* C7: every invocation on which mcp-monitor reached a decision, approve or
\* block, has a record in the usage log that carries its identifier and payload.
C7_EveryDecisionRecorded ==
    \A p \in Procs :
        (IsMonitor(p) /\ IsExited(p) /\ HasToolName(procs[p].stdin)
         /\ procs[p].exit = EXIT_APPROVE) =>
            \E i \in 1..Len(LogLines) :
                /\ DecodeLine(LogLines[i]).ok
                /\ DecodeLine(LogLines[i]).entry.tool = ToolNameOf(procs[p].stdin)
                /\ DecodeLine(LogLines[i]).entry.input = PayloadOf(procs[p].stdin)

\* every line of the log decodes, the last line is complete, and each entry a
\* process wrote stands in the log as often as processes wrote that entry
LogIntact ==
    LET written == {p \in Procs : procs[p].audit = "written"} IN
    /\ \A i \in 1..Len(LogLines) : DecodeLine(LogLines[i]).ok
    /\ logfile # <<>> => logfile[Len(logfile)] = "\n"
    /\ Len(LogLines) = Cardinality(written)
    /\ \A p \in written :
          Cardinality({i \in 1..Len(LogLines) :
                          DecodeLine(LogLines[i]).entry = procs[p].entry})
            = Cardinality({q \in written : procs[q].entry = procs[p].entry})

\* C8: with several mcp-monitor processes appending to the usage log, the log
\* holds exactly one well-formed record for each successful write, each intact,
\* none interleaved with another, and what was written is never changed.
C8_LogRecordsIntact == [] LogIntact /\ [][IsPrefix(logfile, logfile')]_vars

\* two processes that had the log open at the same offset have both written
C8_Witness ==
    \E p, q \in Procs :
        /\ p # q
        /\ procs[p].audit = "written"
        /\ procs[q].audit = "written"
        /\ procs[p].pos = procs[q].pos

\* the process ended on a request that does not decode as an object
Undecodable(p) == procs[p].pc # "idle" /\ procs[p].stdin.syntax # "object"

\* C9: on a request that does not decode as an object, either hook writes a
\* diagnostic to the error stream, exits with status 1 and prints no decision,
\* and no step of such a process changes the usage log.
C9_DecodeErrorFailsFast ==
    /\ [] (\A p \in Procs :
              (Undecodable(p) /\ IsExited(p)) =>
                  /\ procs[p].stderr # <<>>
                  /\ procs[p].exit = EXIT_ERROR
                  /\ procs[p].stdout = <<>>
                  /\ procs[p].audit = "none")
    /\ [][\A p \in Procs :
              (Undecodable(p) /\ procs'[p] # procs[p]) => logfile' = logfile]_vars

\* both hooks have ended on a request that does not decode as an object
C9_Witness ==
    \E p, q \in Procs :
        /\ IsBash(p) /\ IsExited(p) /\ Undecodable(p)
        /\ IsMonitor(q) /\ IsExited(q) /\ Undecodable(q)

\* C10: on a decodable request whose tool_name is not exactly 'bash', or is
\* missing, bash-validator ends with status 0 and writes nothing, whatever the
\* tool_input holds.
C10_OtherToolsIgnored ==
    \A p \in Procs :
        (/\ IsBash(p) /\ IsExited(p)
         /\ procs[p].stdin.syntax = "object"
         /\ procs[p].stdin.tool_name # JStr(Tool_bash)) =>
            /\ procs[p].exit = EXIT_APPROVE
            /\ procs[p].stdout = <<>>
            /\ procs[p].stderr = <<>>

\* a request for another tool that carries a dangerous command has been handled
C10_Witness ==
    \E p \in Procs :
        /\ IsBash(p) /\ IsExited(p)
        /\ procs[p].stdin.tool_name = JStr(Tool_Bash_upper)
        /\ procs[p].stdin.tool_input = JStr(CommandText(Cmd_rm_rf_root))
====
